---- MODULE Spec2Model ----
(***************************************************************************)
(* A model of src/bot.py: the schedule parser (parse_date, clean_lines,    *)
(* extract_lesson_from_block, parse_schedule) and the delivery step of     *)
(* main (getChat / editMessageText / sendMessage / pinChatMessage).        *)
(*                                                                         *)
(* Text.  A line of text is a sequence of atoms.  An atom is a string that *)
(* stands for one fragment of the real text:                               *)
(*   "Npary"      the words of the period marker, "№ пары" / "№пары"      *)
(*   "-" "endash" the two dashes accepted by [-–]                          *)
(*   " " "." ":"  a blank, a full stop, a colon                            *)
(*   a numeral    a maximal run of decimal digits ("1", "09", "2025")      *)
(*   "aud"        the letters "ауд"                                        *)
(*   "lekcia"     a word holding one of the lesson-type keywords           *)
(*   "tip"        the letters "тип"                                        *)
(*   "prep"       the letters "преп"                                       *)
(*   "ivanovich"  a word holding a patronymic suffix ("ич")               *)
(*   other words  "matematika", "fizika", "ivanov"                         *)
(* Two numerals are never adjacent in a line (they would be one run).      *)
(* Case folding (str.lower) is not modelled: atoms are lower-case classes. *)
(***************************************************************************)
EXTENDS Integers, Sequences, FiniteSets, TLC

VARIABLES
    \* extract_lesson_from_block, one block at a time
    block,      \* block_text: the raw lines of the block
    lines,      \* lines = clean_lines(block_text)
    bpc,        \* position in extract_lesson_from_block
    bi,         \* index of the line the current loop is at
    acc,        \* the locals pair, time_s, subject, teacher, room, ltype
    lesson,     \* the return value: <<>> for None, <<Lesson>> otherwise
    \* parse_schedule, one document at a time
    doc,        \* the parsed html: its elements in document order
    ppc,        \* position in parse_schedule
    date_nodes, \* date_nodes: <<date, parent element>> per accepted text node
    uniq,       \* uniq: date_nodes without the later duplicates
    idx,        \* the index of the anchor the main loop is at
    blocks_of,  \* the list blocks of every finished iteration of the loop
    schedule,   \* schedule: date -> list of Lesson
    \* main against one chat
    author,     \* the chat: author[m] is from.id of message m (0: no "from")
    pinned,     \* the chat: the pinned message (0: none)
    mpc,        \* position in main
    runs,       \* the number of runs of main started
    bot_id,     \* bot_id
    pinned_id,  \* pinned_id (0: None)
    new_id,     \* new_id
    calls,      \* the Telegram calls this run has issued after getChat
    obs,        \* what getChat answered in this run, and kept at that time
    kept        \* the message a run sent and pinned, while it stays pinned

bvars == <<block, lines, bpc, bi, acc, lesson>>
pvars == <<doc, ppc, date_nodes, uniq, idx, blocks_of, schedule>>
dvars == <<author, pinned, mpc, runs, bot_id, pinned_id, new_id, calls, obs, kept>>
vars == <<bvars, pvars, dvars>>

-----------------------------------------------------------------------------
(* Bounds of the model *)

MaxBlockLines == 3
MaxElems == 4
MaxDepth == 2
MaxRuns == 3
MaxMsgs == 3

-----------------------------------------------------------------------------
(* Atoms *)

Numerals == {"1", "1000", "09", "00", "10", "30", "101",
             "15", "16", "31", "12", "02", "2025"}

\* int(s) of a numeral
IntOf(a) ==
    CASE a = "1" -> 1       [] a = "1000" -> 1000 [] a = "09" -> 9
      [] a = "00" -> 0      [] a = "10" -> 10     [] a = "30" -> 30
      [] a = "101" -> 101   [] a = "15" -> 15     [] a = "16" -> 16
      [] a = "31" -> 31     [] a = "12" -> 12     [] a = "02" -> 2
      [] a = "2025" -> 2025

\* the number of digits of a numeral
NumDigits(a) ==
    CASE a \in {"1"} -> 1
      [] a \in {"09", "00", "10", "30", "15", "16", "31", "12", "02"} -> 2
      [] a \in {"101"} -> 3
      [] a \in {"1000", "2025"} -> 4

\* the last two digits of a numeral (a numeral of 1 or 2 digits is itself)
Tail2(a) ==
    CASE a = "101" -> "01" [] a = "1000" -> "00" [] a = "2025" -> "25"
      [] OTHER -> a

\* the first two digits of a numeral of at least two digits
Head2(a) ==
    CASE a = "101" -> "10" [] a = "1000" -> "10" [] a = "2025" -> "20"
      [] OTHER -> a

Dashes == {"-", "endash"}
TypeKeywords == {"lekcia"}
PatronymicWords == {"ivanovich"}
\* atoms made of word characters (\w): letters and digits
WordAtoms == Numerals \cup {"Npary", "aud", "lekcia", "tip", "prep",
                            "ivanovich", "ivanov", "matematika", "fizika"}

-----------------------------------------------------------------------------
(* String helpers over atom sequences *)

Range(s) == {s[i] : i \in 1..Len(s)}
Contains(s, a) == \E i \in 1..Len(s) : s[i] = a
FirstIndex(s, a) == CHOOSE i \in 1..Len(s) :
                        s[i] = a /\ \A j \in 1..(i - 1) : s[j] # a

\* s.split(sep, 1)[-1] when sep occurs in s
AfterFirst(s, sep) == SubSeq(s, FirstIndex(s, sep) + 1, Len(s))

RECURSIVE lstrip(_)
lstrip(s) == IF s # <<>> /\ Head(s) = " " THEN lstrip(Tail(s)) ELSE s
RECURSIVE rstrip(_)
rstrip(s) == IF s # <<>> /\ s[Len(s)] = " "
             THEN rstrip(SubSeq(s, 1, Len(s) - 1)) ELSE s
\* str.strip()
strip(s) == rstrip(lstrip(s))

\* " ".join(s.split()): runs of blanks collapse to one blank
RECURSIVE collapse(_)
collapse(s) ==
    IF Len(s) < 2 THEN s
    ELSE IF s[1] = " " /\ s[2] = " " THEN collapse(Tail(s))
    ELSE <<s[1]>> \o collapse(Tail(s))

\* len(s.split()): the number of blank-separated words
WordCount(s) ==
    Cardinality({i \in 1..Len(s) : s[i] # " " /\ (i = 1 \/ s[i - 1] = " ")})

\* the index of the first non-blank atom at or after i (\s*)
RECURSIVE SkipSpaces(_, _)
SkipSpaces(s, i) ==
    IF i <= Len(s) /\ s[i] = " " THEN SkipSpaces(s, i + 1) ELSE i

\* the sequences over S of length at most n
RECURSIVE SeqsUpTo(_, _)
SeqsUpTo(S, n) ==
    IF n = 0 THEN {<<>>}
    ELSE LET R == SeqsUpTo(S, n - 1) IN
         R \cup {Append(s, x) : s \in {r \in R : Len(r) = n - 1}, x \in S}

-----------------------------------------------------------------------------
(* The regular expressions, bot.py lines 82-84 *)

\* PAIR_RE matches at atom i; the capture is the numeral at PairGroupAt
PairAt(s, i) ==
    /\ s[i] = "Npary"
    /\ LET j == SkipSpaces(s, i + 1) IN
       /\ j <= Len(s)
       /\ s[j] \in Dashes
       /\ LET k == SkipSpaces(s, j + 1) IN
          k <= Len(s) /\ s[k] \in Numerals
PairGroupAt(s, i) == s[SkipSpaces(s, SkipSpaces(s, i + 1) + 1)]

PAIR_RE_matches(s) == \E i \in 1..Len(s) : PairAt(s, i)
\* PAIR_RE.search(s).group(1): the leftmost match
PAIR_RE_group(s) ==
    LET i == CHOOSE i \in 1..Len(s) :
                 PairAt(s, i) /\ \A j \in 1..(i - 1) : ~PairAt(s, j)
    IN PairGroupAt(s, i)

\* \d{1,2}:\d{2} matches with its hour digits ending numeral i
ClockAt(s, i) ==
    /\ i + 2 <= Len(s)
    /\ s[i] \in Numerals
    /\ s[i + 1] = ":"
    /\ s[i + 2] \in Numerals
    /\ NumDigits(s[i + 2]) >= 2
ClockGroupAt(s, i) == <<Tail2(s[i]), ":", Head2(s[i + 2])>>

\* the second clock of TIME_RE must start its numeral and take two digits
TimeAt(s, i) ==
    /\ ClockAt(s, i)
    /\ NumDigits(s[i + 2]) = 2
    /\ LET j == SkipSpaces(s, i + 3) IN
       /\ j <= Len(s)
       /\ s[j] \in Dashes
       /\ LET k == SkipSpaces(s, j + 1) IN
          ClockAt(s, k) /\ NumDigits(s[k]) <= 2
TimeSecondAt(s, i) == SkipSpaces(s, SkipSpaces(s, i + 3) + 1)

TIME_RE_matches(s) == \E i \in 1..Len(s) : TimeAt(s, i)
\* f"{tm.group(1)}–{tm.group(2)}" of the leftmost match
TIME_RE_render(s) ==
    LET i == CHOOSE i \in 1..Len(s) :
                 TimeAt(s, i) /\ \A j \in 1..(i - 1) : ~TimeAt(s, j)
    IN ClockGroupAt(s, i) \o <<"endash">> \o ClockGroupAt(s, TimeSecondAt(s, i))

-----------------------------------------------------------------------------
(* clean_lines, bot.py lines 114-120 *)

RECURSIVE clean_lines(_)
clean_lines(text) ==
    IF text = <<>> THEN <<>>
    ELSE LET t == collapse(strip(Head(text))) IN
         (IF t # <<>> THEN <<t>> ELSE <<>>) \o clean_lines(Tail(text))

-----------------------------------------------------------------------------
(* extract_lesson_from_block, bot.py lines 123-201 *)

\* the date every block of the block specification is extracted for
BlockDay == <<2025, 12, 16>>

Lesson(day, pair, time, subject, teacher, room, lesson_type) ==
    [day |-> day, pair |-> pair, time |-> time, subject |-> subject,
     teacher |-> teacher, room |-> room, lesson_type |-> lesson_type]

\* The locals after lines 128-133.  by.f is the index of the line whose text
\* is the current value of local f (0: none); claim[i] is the branch of the
\* second loop that took line i.
InitAcc ==
    [pair |-> "", time_s |-> <<>>, subject |-> <<>>, teacher |-> <<>>,
     room |-> <<>>, ltype |-> <<>>, claim |-> <<>>,
     by |-> [pair |-> 0, time_s |-> 0, subject |-> 0, teacher |-> 0,
             room |-> 0, ltype |-> 0]]

\* one iteration of the first loop, lines 135-141
ScanLine(a, ln, i) ==
    LET a1 == IF PAIR_RE_matches(ln)
              THEN [a EXCEPT !.pair = PAIR_RE_group(ln), !.by.pair = i]
              ELSE a
    IN IF TIME_RE_matches(ln)
       THEN [a1 EXCEPT !.time_s = TIME_RE_render(ln), !.by.time_s = i]
       ELSE a1

IsRoomLine(ln) ==
    ln[1] = "aud" \/ \E i \in 1..(Len(ln) - 1) : ln[i] = "aud" /\ ln[i + 1] = "."
IsTypeLine(ln) == \E i \in 1..Len(ln) : ln[i] \in TypeKeywords
IsPrepLine(ln) == Contains(ln, "prep")
IsNameLine(ln) ==
    WordCount(ln) >= 2 /\ \E i \in 1..Len(ln) : ln[i] \in PatronymicWords

RoomValue(ln) ==
    LET v == IF Contains(ln, ".") THEN strip(AfterFirst(ln, ".")) ELSE ln
    IN IF v # <<>> THEN v ELSE ln
TypeValue(ln) ==
    IF Contains(ln, ":") /\ ln[1] = "tip"
    THEN strip(AfterFirst(ln, ":")) ELSE ln
PrepValue(ln) ==
    IF Contains(ln, ":") THEN strip(AfterFirst(ln, ":")) ELSE ln

\* lines 144-177 with a fault: the room branch lacks its continue, so a room
\* line goes on to the rules below it
ClassifyLineFallThrough(a, ln, i) ==
    IF PAIR_RE_matches(ln) \/ TIME_RE_matches(ln)
    THEN [a EXCEPT !.claim = Append(@, "skip")]
    ELSE LET a1 == IF IsRoomLine(ln)
                   THEN [a EXCEPT !.room = RoomValue(ln), !.by.room = i]
                   ELSE a
         IN IF IsTypeLine(ln)
            THEN [a1 EXCEPT !.ltype = TypeValue(ln), !.by.ltype = i,
                            !.claim = Append(@, "ltype")]
            ELSE IF a1.teacher = <<>> /\ IsPrepLine(ln)
            THEN [a1 EXCEPT !.teacher = PrepValue(ln), !.by.teacher = i,
                            !.claim = Append(@, "teacher")]
            ELSE IF a1.teacher = <<>> /\ IsNameLine(ln)
            THEN [a1 EXCEPT !.teacher = ln, !.by.teacher = i,
                            !.claim = Append(@, "teacher")]
            ELSE IF a1.subject = <<>>
            THEN [a1 EXCEPT !.subject = ln, !.by.subject = i,
                            !.claim = Append(@, "subject")]
            ELSE [a1 EXCEPT !.claim = Append(@, "none")]

\* one iteration of the second loop, lines 144-177
ClassifyLine(a, ln, i) ==
    IF PAIR_RE_matches(ln) \/ TIME_RE_matches(ln)
    THEN [a EXCEPT !.claim = Append(@, "skip")]
    ELSE IF IsRoomLine(ln)
    THEN [a EXCEPT !.room = RoomValue(ln), !.by.room = i,
                   !.claim = Append(@, "room")]
    ELSE IF IsTypeLine(ln)
    THEN [a EXCEPT !.ltype = TypeValue(ln), !.by.ltype = i,
                   !.claim = Append(@, "ltype")]
    ELSE IF a.teacher = <<>> /\ IsPrepLine(ln)
    THEN [a EXCEPT !.teacher = PrepValue(ln), !.by.teacher = i,
                   !.claim = Append(@, "teacher")]
    ELSE IF a.teacher = <<>> /\ IsNameLine(ln)
    THEN [a EXCEPT !.teacher = ln, !.by.teacher = i,
                   !.claim = Append(@, "teacher")]
    ELSE IF a.subject = <<>>
    THEN [a EXCEPT !.subject = ln, !.by.subject = i,
                   !.claim = Append(@, "subject")]
    ELSE [a EXCEPT !.claim = Append(@, "none")]

\* "ауд" in ln.lower() and any(ch.isdigit() for ch in ln), line 182
IsRescanRoom(ln) ==
    Contains(ln, "aud") /\ \E i \in 1..Len(ln) : ln[i] \in Numerals

\* the room re-scan, lines 180-184
RoomRescan(a, ls) ==
    IF a.room = <<>> /\ \E i \in 1..Len(ls) : IsRescanRoom(ls[i])
    THEN LET i == CHOOSE i \in 1..Len(ls) :
                      IsRescanRoom(ls[i])
                      /\ \A j \in 1..(i - 1) : ~IsRescanRoom(ls[j])
         IN [a EXCEPT !.room = ls[i], !.by.room = i]
    ELSE a

\* the "Тип:" clean-up, lines 187-188
StripTip(a) ==
    IF a.ltype # <<>> /\ a.ltype[1] = "tip" /\ Contains(a.ltype, ":")
    THEN [a EXCEPT !.ltype = strip(AfterFirst(a.ltype, ":"))]
    ELSE a

\* lines 190-201 with a fault: a block without a subject is discarded
FinishNeedsSubject(a, day) ==
    IF a.subject = <<>>
    THEN <<>>
    ELSE <<Lesson(day, a.pair, a.time_s, a.subject, a.teacher, a.room, a.ltype)>>

\* lines 190-201: None unless a descriptive field is non-empty
Finish(a, day) ==
    IF a.subject = <<>> /\ a.teacher = <<>> /\ a.room = <<>> /\ a.ltype = <<>>
    THEN <<>>
    ELSE <<Lesson(day, a.pair, a.time_s, a.subject, a.teacher, a.room, a.ltype)>>

RECURSIVE ScanFrom(_, _, _)
ScanFrom(a, ls, i) ==
    IF i > Len(ls) THEN a ELSE ScanFrom(ScanLine(a, ls[i], i), ls, i + 1)
RECURSIVE ClassifyFrom(_, _, _)
ClassifyFrom(a, ls, i) ==
    IF i > Len(ls) THEN a ELSE ClassifyFrom(ClassifyLine(a, ls[i], i), ls, i + 1)

\* the whole function: <<>> is None
extract_lesson_from_block(block_text, current_day) ==
    LET ls == clean_lines(block_text) IN
    IF ls = <<>> THEN <<>>
    ELSE Finish(StripTip(RoomRescan(
             ClassifyFrom(ScanFrom(InitAcc, ls, 1), ls, 1), ls)), current_day)

-----------------------------------------------------------------------------
(* parse_date, bot.py lines 103-111.  A text is a sequence of lines. *)

\* DATE_RE matches at atom i of a line: \b\d{2}\.\d{2}\.\d{4}\b
DateAt(ln, i) ==
    /\ i + 4 <= Len(ln)
    /\ ln[i] \in Numerals /\ NumDigits(ln[i]) = 2
    /\ ln[i + 1] = "."
    /\ ln[i + 2] \in Numerals /\ NumDigits(ln[i + 2]) = 2
    /\ ln[i + 3] = "."
    /\ ln[i + 4] \in Numerals /\ NumDigits(ln[i + 4]) = 4
    /\ (i = 1 \/ ln[i - 1] \notin WordAtoms)
    /\ (i + 4 = Len(ln) \/ ln[i + 5] \notin WordAtoms)

LineHasDate(ln) == \E i \in 1..Len(ln) : DateAt(ln, i)
DATE_RE_matches(text) == \E l \in 1..Len(text) : LineHasDate(text[l])

IsLeap(y) == (y % 4 = 0 /\ y % 100 # 0) \/ y % 400 = 0
DaysInMonth(y, m) ==
    IF m = 2 THEN (IF IsLeap(y) THEN 29 ELSE 28)
    ELSE IF m \in {4, 6, 9, 11} THEN 30 ELSE 31

\* datetime.date(y, m, d) does not raise ValueError
ValidDate(y, m, d) ==
    /\ y \in 1..9999
    /\ m \in 1..12
    /\ d \in 1..DaysInMonth(y, m)

\* the date a match at atom i of ln stands for, <<>> when date() raises
DateOfMatch(ln, i) ==
    LET dd == IntOf(ln[i])
        mm == IntOf(ln[i + 2])
        yy == IntOf(ln[i + 4])
    IN IF ValidDate(yy, mm, dd) THEN <<(<<yy, mm, dd>>)>> ELSE <<>>

\* parse_date(s): the first match of the text decides; <<>> is None
parse_date(text) ==
    IF ~DATE_RE_matches(text) THEN <<>>
    ELSE LET l == CHOOSE l \in 1..Len(text) :
                      LineHasDate(text[l])
                      /\ \A k \in 1..(l - 1) : ~LineHasDate(text[k])
             i == CHOOSE i \in 1..Len(text[l]) :
                      DateAt(text[l], i)
                      /\ \A j \in 1..(i - 1) : ~DateAt(text[l], j)
         IN DateOfMatch(text[l], i)

-----------------------------------------------------------------------------
(* The document.  doc[e] is an element (a Tag): its depth in the tree and   *)
(* the text of its own text node, which comes before its child elements    *)
(* (<<>>: the element has no text node of its own).  Elements are listed in *)
(* document order, so the children of e follow it with a greater depth.     *)

\* the last element of the subtree of e
RECURSIVE SubtreeEnd(_, _, _)
SubtreeEnd(d, e, k) ==
    IF k + 1 <= Len(d) /\ d[k + 1].depth > d[e].depth
    THEN SubtreeEnd(d, e, k + 1) ELSE k

\* the texts of elements a..b, one after the other
RECURSIVE TextOfRange(_, _, _)
TextOfRange(d, a, b) ==
    IF a > b THEN <<>> ELSE d[a].text \o TextOfRange(d, a + 1, b)

\* cur.get_text("\n", strip=True) of a Tag, line 244
get_text(d, e) == TextOfRange(d, e, SubtreeEnd(d, e, e))

\* "№ пары" in t or "№пары" in t, line 248
HasMarker(t) == \E l \in 1..Len(t) : Contains(t[l], "Npary")

\* soup.find_all(string=DATE_RE) and lines 209-216, from element e on
RECURSIVE FindDateNodes(_, _)
FindDateNodes(d, e) ==
    IF e > Len(d) THEN <<>>
    ELSE (IF DATE_RE_matches(d[e].text) /\ parse_date(d[e].text) # <<>>
          THEN << <<parse_date(d[e].text)[1], e>> >> ELSE <<>>)
         \o FindDateNodes(d, e + 1)

\* lines 219-225
RECURSIVE Dedup(_, _)
Dedup(dn, seen) ==
    IF dn = <<>> THEN <<>>
    ELSE IF Head(dn)[1] \in seen THEN Dedup(Tail(dn), seen)
    ELSE <<Head(dn)>> \o Dedup(Tail(dn), seen \cup {Head(dn)[1]})

\* a member of the list blocks: the text t, and the element it is the text of
Block(e, t) == [elem |-> e, text |-> t]

\* The while loop of lines 236-249 from Tag e on; next_node = 0 is None.
\* find_next() with no filter yields the next Tag in document order.
\* Tag equality (==) compares name, attributes and contents; an element
\* before next_node with the contents of next_node would hold the same
\* first date and be the anchor itself, so here it is e = next_node.
RECURSIVE WalkFrom(_, _, _)
WalkFrom(d, e, next_node) ==
    IF e > Len(d) THEN <<>>
    ELSE IF next_node # 0 /\ e = next_node THEN <<>>
    ELSE (IF HasMarker(get_text(d, e))
          THEN <<Block(e, get_text(d, e))>> ELSE <<>>)
         \o WalkFrom(d, e + 1, next_node)

\* lines 234-249: the blocks of the window that starts after Tag node
WindowBlocks(d, node, next_node) == WalkFrom(d, node + 1, next_node)

\* lines 251-255
RECURSIVE LessonsOf(_, _)
LessonsOf(blocks, day) ==
    IF blocks = <<>> THEN <<>>
    ELSE extract_lesson_from_block(Head(blocks).text, day)
         \o LessonsOf(Tail(blocks), day)

\* the except branch of k, line 262
NoPairKey == 999

\* k(x), lines 258-262: int("") raises
k(x) == IF x.pair \in Numerals THEN IntOf(x.pair) ELSE NoPairKey

\* list.sort(key=k) is stable: x goes after every element whose key is not
\* greater
RECURSIVE InsertByKey(_, _)
InsertByKey(sorted, x) ==
    IF sorted = <<>> THEN <<x>>
    ELSE IF k(Head(sorted)) <= k(x)
    THEN <<Head(sorted)>> \o InsertByKey(Tail(sorted), x)
    ELSE <<x>> \o sorted
RECURSIVE SortByKey(_)
SortByKey(ls) ==
    IF ls = <<>> THEN <<>>
    ELSE InsertByKey(SortByKey(SubSeq(ls, 1, Len(ls) - 1)), ls[Len(ls)])

\* schedule[d] = lessons, line 265
DictSet(dict, key, val) ==
    [x \in DOMAIN dict \cup {key} |-> IF x = key THEN val ELSE dict[x]]
EmptyDict == [x \in {} |-> <<>>]

-----------------------------------------------------------------------------
(* Delivery: main, bot.py lines 388-432, against one chat.  Message ids are *)
(* positive, so 0 stands for None and "if pinned_id:" is pinned_id # 0.     *)
(* A message sent by the bot has from.id = the bot's id.                    *)

\* get_bot_id(token), lines 339-341
BotId == 7
\* from.id of the messages of others; 0: the message has no "from"
OtherAuthors == {0, 8}

NoPinned == [mid |-> 0, from |-> 0]
\* before getChat has answered in a run
NoObs == [seen |-> FALSE, mid |-> 0, from |-> 0, kept |-> 0]
\* chat["result"].get("pinned_message"), line 352
PinnedMessage == IF pinned = 0 THEN NoPinned
                 ELSE [mid |-> pinned, from |-> author[pinned]]

\* lines 353-365 with a fault: the author of the pinned message is not
\* looked at
get_pinned_message_id(p, bot) ==
    IF p.mid = 0 THEN 0 ELSE p.mid

\* get_pinned_message_id_if_ours, lines 353-365, on the pinned message p
get_pinned_message_id_if_ours(p, bot) ==
    IF p.mid = 0 THEN 0
    ELSE IF p.from = 0 THEN 0
    ELSE IF p.from # bot THEN 0
    ELSE p.mid

-----------------------------------------------------------------------------
(* The inputs of the specifications, and the state of the parts a       *)
(* specification leaves alone                                            *)

MarkerLine1 == <<"Npary", " ", "-", " ", "1">>
TimeLine == <<"09", ":", "00", " ", "-", " ", "10", ":", "30">>
DateLine15 == <<"15", ".", "12", ".", "2025">>
DateLine16 == <<"16", ".", "12", ".", "2025">>
BadThenDate16 == <<"31", ".", "02", ".", "2025", " ", "16", ".", "12", ".", "2025">>
MarkerLine1000 == <<"Npary", " ", "-", " ", "1000">>

\* the texts an element's own text node may hold
ElemTexts ==
    { <<>>,
      <<DateLine15>>,
      <<DateLine16>>,
      <<BadThenDate16>>,
      <<MarkerLine1, <<"matematika">> >>,
      <<MarkerLine1000, <<"fizika">> >>,
      << <<"Npary", " ", "fizika">> >>,
      <<MarkerLine1, TimeLine>> }

Elems == [depth : 1..MaxDepth, text : ElemTexts]

\* document order of a forest: the first element is a root, an element is
\* at most one level below the one before it
WellFormed(d) ==
    /\ d # <<>> => d[1].depth = 1
    /\ \A e \in 2..Len(d) : d[e].depth <= d[e - 1].depth + 1

\* the documents of n elements
DocsOfLen(n) == {d \in [1..n -> Elems] : WellFormed(d)}

\* the raw lines blocks are made of
SampleLines ==
    { MarkerLine1,
      TimeLine,
      <<"matematika">>,
      <<"ivanov", " ", "ivanovich">>,
      <<"aud", ".", " ", "101">>,
      <<"lekcia">>,
      <<"tip", ":", " ", "lekcia">>,
      <<"prep", ":">>,
      <<"lekcia", " ", "aud", " ", "101">>,
      <<"fizika", " ", "10", ":", "30", "endash", "12", ":", "00">>,
      <<" ", "fizika", " ", " ">>,
      <<>>,
      <<"Npary", " ", "-", " ", "1000", " ", "aud", " ", "101">> }

ParseIdle ==
    /\ doc = <<>>
    /\ ppc = "idle"
    /\ date_nodes = <<>>
    /\ uniq = <<>>
    /\ idx = 1
    /\ blocks_of = <<>>
    /\ schedule = EmptyDict

BlockIdle ==
    /\ block = <<>>
    /\ lines = <<>>
    /\ bpc = "idle"
    /\ bi = 1
    /\ acc = InitAcc
    /\ lesson = <<>>

DeliverIdle ==
    /\ author = <<>>
    /\ pinned = 0
    /\ mpc = "off"
    /\ runs = 0
    /\ bot_id = 0
    /\ pinned_id = 0
    /\ new_id = 0
    /\ calls = <<>>
    /\ obs = NoObs
    /\ kept = 0

-----------------------------------------------------------------------------
(* The block specification: extract_lesson_from_block step by step *)

BlockInit ==
    /\ block \in SeqsUpTo(SampleLines, MaxBlockLines)
    /\ lines = <<>>
    /\ bpc = "clean"
    /\ bi = 1
    /\ acc = InitAcc
    /\ lesson = <<>>
    /\ ParseIdle
    /\ DeliverIdle

\* lines 124-126
Clean ==
    /\ bpc = "clean"
    /\ lines' = clean_lines(block)
    /\ bpc' = IF lines' = <<>> THEN "done" ELSE "scan"
    /\ UNCHANGED <<block, bi, acc, lesson, pvars, dvars>>

\* lines 135-141, one line
ScanStep ==
    /\ bpc = "scan"
    /\ acc' = ScanLine(acc, lines[bi], bi)
    /\ IF bi < Len(lines)
       THEN bi' = bi + 1 /\ bpc' = bpc
       ELSE bi' = 1 /\ bpc' = "classify"
    /\ UNCHANGED <<block, lines, lesson, pvars, dvars>>

\* lines 144-177, one line
ClassifyStep ==
    /\ bpc = "classify"
    /\ acc' = ClassifyLine(acc, lines[bi], bi)
    /\ IF bi < Len(lines)
       THEN bi' = bi + 1 /\ bpc' = bpc
       ELSE bi' = 1 /\ bpc' = "rescan"
    /\ UNCHANGED <<block, lines, lesson, pvars, dvars>>

\* lines 180-188
RescanStep ==
    /\ bpc = "rescan"
    /\ acc' = StripTip(RoomRescan(acc, lines))
    /\ bpc' = "finish"
    /\ UNCHANGED <<block, lines, bi, lesson, pvars, dvars>>

\* lines 190-201
FinishStep ==
    /\ bpc = "finish"
    /\ lesson' = Finish(acc, BlockDay)
    /\ bpc' = "done"
    /\ UNCHANGED <<block, lines, bi, acc, pvars, dvars>>

BlockNext == Clean \/ ScanStep \/ ClassifyStep \/ RescanStep \/ FinishStep

SpecBlock == BlockInit /\ [][BlockNext]_vars

\* the step-wise run ends with what the function returns
BlockAgrees == bpc = "done" => lesson = extract_lesson_from_block(block, BlockDay)

-----------------------------------------------------------------------------
(* Properties of extract_lesson_from_block *)

\* a line that is a period marker and nothing else
IsPureMarker(ln) ==
    PairAt(ln, 1) /\ SkipSpaces(ln, SkipSpaces(ln, 2) + 1) = Len(ln)
\* a line that is a time range and nothing else
IsPureTime(ln) == TimeAt(ln, 1) /\ TimeSecondAt(ln, 1) + 2 = Len(ln)

DescriptiveEmpty(a) ==
    a.subject = <<>> /\ a.teacher = <<>> /\ a.room = <<>> /\ a.ltype = <<>>

\* C3: a Lesson is returned if and only if subject, teacher, room or
\* lesson_type is non-empty after classification; a block of period-marker
\* and time-range lines only yields no Lesson; a block with a teacher, room
\* or type but no subject line yields a Lesson whose subject is empty.
C3_DiscardRule ==
    bpc = "done" =>
        /\ lesson # <<>> <=> ~DescriptiveEmpty(acc)
        /\ lesson # <<>> =>
               lesson[1] = Lesson(BlockDay, acc.pair, acc.time_s, acc.subject,
                                  acc.teacher, acc.room, acc.ltype)
        /\ (\A i \in 1..Len(lines) : IsPureMarker(lines[i]) \/ IsPureTime(lines[i]))
               => lesson = <<>>
        /\ (/\ "subject" \notin Range(acc.claim)
            /\ acc.teacher # <<>> \/ acc.room # <<>> \/ acc.ltype # <<>>)
               => lesson # <<>> /\ lesson[1].subject = <<>>

\* a block with a marker, a time, a teacher and a room but no subject line
\* has yielded a Lesson
C3_Witness ==
    /\ bpc = "done"
    /\ lesson # <<>>
    /\ lesson[1].subject = <<>>
    /\ lesson[1].teacher # <<>>
    /\ lesson[1].pair = "1"
    /\ lesson[1].time # <<>>

DescriptiveFields == {"subject", "teacher", "room", "ltype"}

\* C9 as stated: a line supplies the value of a field only if the rule of
\* that field claimed it, the room re-scan included.
C9_LineSuppliesOneField ==
    bpc = "done" =>
        \A f \in DescriptiveFields :
            acc.by[f] # 0 => acc.claim[acc.by[f]] = f

\* C9, amended: in the loop over the lines the rules are tried in the order
\* room, lesson type, teacher, subject and the first that matches takes the
\* line, a period-marker or time line being taken by none; subject, teacher
\* and lesson type come from a line their own rule took.  The room comes
\* from a line the room rule took, or, when no line was taken by the room
\* rule, from the first line of the block with "ауд" and a digit, whichever
\* rule took or skipped that line.
C9_FirstRuleWinsRescanReuses ==
    bpc \in {"finish", "done"} /\ lines # <<>> =>
        /\ Len(acc.claim) = Len(lines)
        /\ \A i \in 1..Len(lines) :
               LET ln == lines[i]
                   skipped == PAIR_RE_matches(ln) \/ TIME_RE_matches(ln)
               IN /\ acc.claim[i] = "skip" <=> skipped
                  /\ acc.claim[i] = "room" <=> ~skipped /\ IsRoomLine(ln)
                  /\ acc.claim[i] = "ltype"
                         <=> ~skipped /\ ~IsRoomLine(ln) /\ IsTypeLine(ln)
                  /\ acc.claim[i] = "teacher"
                         => /\ ~skipped /\ ~IsRoomLine(ln) /\ ~IsTypeLine(ln)
                            /\ IsPrepLine(ln) \/ IsNameLine(ln)
                  /\ acc.claim[i] = "subject"
                         => ~skipped /\ ~IsRoomLine(ln) /\ ~IsTypeLine(ln)
        /\ \A f \in {"subject", "teacher", "ltype"} :
               acc.by[f] # 0 => acc.claim[acc.by[f]] = f
        /\ acc.by.room # 0 =>
               \/ acc.claim[acc.by.room] = "room"
               \/ /\ "room" \notin Range(acc.claim)
                  /\ IsRescanRoom(lines[acc.by.room])
                  /\ \A j \in 1..(acc.by.room - 1) : ~IsRescanRoom(lines[j])
                  /\ acc.room = lines[acc.by.room]

\* the re-scan has taken the room from a line the lesson-type rule took,
\* in a block that also has a subject line
C9_Witness ==
    /\ bpc = "done"
    /\ lesson # <<>>
    /\ acc.by.room # 0
    /\ acc.claim[acc.by.room] = "ltype"
    /\ acc.by.ltype = acc.by.room
    /\ acc.by.subject # 0

\* C10: the time of a Lesson is non-empty only when the line right after
\* the period-marker line matches the time range, and is then that range as
\* start–end; a time range in any other line neither sets the time nor
\* takes that line out of the classification.
C10_TimeOnlyFromLineAfterMarker ==
    bpc = "done" /\ lesson # <<>> =>
        /\ lesson[1].time # <<>> =>
               \E i \in 1..(Len(lines) - 1) :
                   /\ PAIR_RE_matches(lines[i])
                   /\ TIME_RE_matches(lines[i + 1])
                   /\ lesson[1].time = TIME_RE_render(lines[i + 1])
        /\ \A j \in 1..Len(lines) :
               (/\ TIME_RE_matches(lines[j])
                /\ ~PAIR_RE_matches(lines[j])
                /\ ~(j > 1 /\ PAIR_RE_matches(lines[j - 1])))
               => acc.claim[j] # "skip"

-----------------------------------------------------------------------------
(* The parse specification: parse_schedule on one document *)

ParseInit ==
    /\ \E n \in 0..MaxElems : doc \in DocsOfLen(n)
    /\ ppc = "find"
    /\ date_nodes = <<>>
    /\ uniq = <<>>
    /\ idx = 1
    /\ blocks_of = <<>>
    /\ schedule = EmptyDict
    /\ BlockIdle
    /\ DeliverIdle

\* lines 207-216
FindDates ==
    /\ ppc = "find"
    /\ date_nodes' = FindDateNodes(doc, 1)
    /\ ppc' = "dedupe"
    /\ UNCHANGED <<doc, uniq, idx, blocks_of, schedule, bvars, dvars>>

\* lines 218-229
Dedupe ==
    /\ ppc = "dedupe"
    /\ uniq' = Dedup(date_nodes, {})
    /\ ppc' = IF uniq' = <<>> THEN "done" ELSE "window"
    /\ UNCHANGED <<doc, date_nodes, idx, blocks_of, schedule, bvars, dvars>>

\* lines 231-265, one iteration of the loop over uniq
ScanWindow ==
    /\ ppc = "window"
    /\ LET d == uniq[idx][1]
           node == uniq[idx][2]
           next_node == IF idx + 1 <= Len(uniq) THEN uniq[idx + 1][2] ELSE 0
           blocks == WindowBlocks(doc, node, next_node)
           lessons == SortByKey(LessonsOf(blocks, d))
       IN /\ blocks_of' = Append(blocks_of, blocks)
          /\ schedule' = DictSet(schedule, d, lessons)
    /\ IF idx < Len(uniq)
       THEN idx' = idx + 1 /\ ppc' = ppc
       ELSE idx' = idx /\ ppc' = "done"
    /\ UNCHANGED <<doc, date_nodes, uniq, bvars, dvars>>

ParseNext == FindDates \/ Dedupe \/ ScanWindow

SpecParse == ParseInit /\ [][ParseNext]_vars

-----------------------------------------------------------------------------
(* Properties of parse_schedule *)

IsNumericPair(x) == x.pair \in Numerals

\* the order the sort invariant asks for: numeric pairs by value, then the
\* lessons without a numeric pair
OrderLE(x, y) ==
    \/ IsNumericPair(x) /\ IsNumericPair(y) /\ IntOf(x.pair) <= IntOf(y.pair)
    \/ IsNumericPair(x) /\ ~IsNumericPair(y)
    \/ ~IsNumericPair(x) /\ ~IsNumericPair(y)
RECURSIVE InsertInOrder(_, _)
InsertInOrder(sorted, x) ==
    IF sorted = <<>> THEN <<x>>
    ELSE IF OrderLE(Head(sorted), x)
    THEN <<Head(sorted)>> \o InsertInOrder(Tail(sorted), x)
    ELSE <<x>> \o sorted
RECURSIVE StableInOrder(_)
StableInOrder(ls) ==
    IF ls = <<>> THEN <<>>
    ELSE InsertInOrder(StableInOrder(SubSeq(ls, 1, Len(ls) - 1)), ls[Len(ls)])

\* the index in uniq of the anchor of date d
AnchorOf(d) == CHOOSE i \in 1..Len(uniq) : uniq[i][1] = d

\* C1: in every day's list the lessons with a numeric pair are non-decreasing
\* by the integer value of pair, every lesson without a numeric pair comes
\* after all lessons with one (whatever the numeric value, 999 and above
\* included), and lessons of equal position keep their discovery order.
C1_SortInvariant ==
    ppc = "done" =>
        \A d \in DOMAIN schedule :
            LET L == schedule[d] IN
            /\ \A i, j \in 1..Len(L) :
                   i < j =>
                       /\ (IsNumericPair(L[i]) /\ IsNumericPair(L[j])
                              => IntOf(L[i].pair) <= IntOf(L[j].pair))
                       /\ ~(~IsNumericPair(L[i]) /\ IsNumericPair(L[j]))
            /\ L = StableInOrder(LessonsOf(blocks_of[AnchorOf(d)], d))

\* C2: the returned Schedule holds no date whose lesson list is empty.
C2_NoEmptyDay ==
    ppc = "done" => \A d \in DOMAIN schedule : schedule[d] # <<>>

\* every DATE_RE match of a line, as dates (<<>> dropped: not a calendar date)
RECURSIVE DatesOfLine(_, _)
DatesOfLine(ln, i) ==
    IF i > Len(ln) THEN <<>>
    ELSE (IF DateAt(ln, i) THEN DateOfMatch(ln, i) ELSE <<>>)
         \o DatesOfLine(ln, i + 1)
RECURSIVE DatesOfText(_)
DatesOfText(text) ==
    IF text = <<>> THEN <<>>
    ELSE DatesOfLine(Head(text), 1) \o DatesOfText(Tail(text))
RECURSIVE DatesOfDoc(_, _)
DatesOfDoc(d, e) ==
    IF e > Len(d) THEN <<>>
    ELSE DatesOfText(d[e].text) \o DatesOfDoc(d, e + 1)
RECURSIVE FirstOccurrences(_, _)
FirstOccurrences(ds, seen) ==
    IF ds = <<>> THEN <<>>
    ELSE IF Head(ds) \in seen THEN FirstOccurrences(Tail(ds), seen)
    ELSE <<Head(ds)>> \o FirstOccurrences(Tail(ds), seen \cup {Head(ds)})

AnchorDates == [i \in 1..Len(uniq) |-> uniq[i][1]]

\* C4: the anchors are the distinct valid calendar dates among all
\* day.month.year matches of the document, in order of first appearance; an
\* invalid match costs that match only.
C4_AnchorsAreTheValidDates ==
    ppc \in {"window", "done"} =>
        AnchorDates = FirstOccurrences(DatesOfDoc(doc, 1), {})

\* element e holds a lesson block of its own
IsLessonElem(e) ==
    /\ HasMarker(doc[e].text)
    /\ extract_lesson_from_block(doc[e].text, <<2025, 12, 15>>) # <<>>

HoldsDate(e) == parse_date(doc[e].text) # <<>>
\* the nearest element before e whose text holds a date (0: none)
DateElemBefore(e) ==
    IF \E p \in 1..(e - 1) : HoldsDate(p)
    THEN CHOOSE p \in 1..(e - 1) :
             HoldsDate(p) /\ \A q \in (p + 1)..(e - 1) : ~HoldsDate(q)
    ELSE 0

ElemsOfBlocks(bs) == {bs[n].elem : n \in 1..Len(bs)}

\* C5: when date D appears again after the anchor of another date E, the
\* lesson blocks that follow the second appearance go to D's list, not to
\* E's, and are not dropped.
C5_RepeatedDateMergesIntoFirst ==
    ppc = "done" =>
        \A e \in 1..Len(doc) :
            LET p == DateElemBefore(e) IN
            (IsLessonElem(e) /\ p # 0) =>
                LET i == AnchorOf(parse_date(doc[p].text)[1]) IN
                (/\ uniq[i][2] < p
                 /\ \E j \in 1..Len(uniq) : uniq[i][2] < uniq[j][2] /\ uniq[j][2] < p)
                => /\ e \in ElemsOfBlocks(blocks_of[i])
                   /\ \A j \in 1..Len(uniq) :
                          j # i => e \notin ElemsOfBlocks(blocks_of[j])

\* the elements whose text is part of block b
TextElemsOf(b) ==
    {e \in b.elem..SubtreeEnd(doc, b.elem, b.elem) : doc[e].text # <<>>}

\* C7: every Lesson of anchor i comes from content between anchor i and
\* anchor i+1 only (the end of the document for the last anchor): no text
\* after the next anchor is in a block of the earlier date, also when a
\* scanned element encloses the next anchor.  (The text node of the next
\* anchor itself is let through here: only text after it counts.)
C7_LessonsStayInWindow ==
    ppc = "done" =>
        \A i \in 1..Len(blocks_of) :
            \A n \in 1..Len(blocks_of[i]) :
                LET b == blocks_of[i][n] IN
                extract_lesson_from_block(b.text, uniq[i][1]) # <<>> =>
                    \A e \in TextElemsOf(b) :
                        /\ uniq[i][2] <= e
                        /\ i < Len(uniq) => e <= uniq[i + 1][2]

CountIn(ln, a) == Cardinality({n \in 1..Len(ln) : ln[n] = a})
RECURSIVE MarkersOfText(_)
MarkersOfText(text) ==
    IF text = <<>> THEN 0
    ELSE CountIn(Head(text), "Npary") + MarkersOfText(Tail(text))
\* the period markers of the window of anchor i
MarkersOfWindow(i) ==
    MarkersOfText(TextOfRange(doc, uniq[i][2],
        IF i < Len(uniq) THEN uniq[i + 1][2] - 1 ELSE Len(doc)))

\* C8: a marker starts exactly one block, so a day never has more Lessons
\* than its window has period markers, whatever the nesting of the elements.
C8_OneLessonPerMarker ==
    ppc = "done" =>
        \A i \in 1..Len(blocks_of) :
            Len(schedule[uniq[i][1]]) <= MarkersOfWindow(i)

-----------------------------------------------------------------------------
(* The delivery specification: runs of main against one chat *)

DeliverInit ==
    /\ author = <<>>
    /\ pinned = 0
    /\ mpc = "idle"
    /\ runs = 0
    /\ bot_id = 0
    /\ pinned_id = 0
    /\ new_id = 0
    /\ calls = <<>>
    /\ obs = NoObs
    /\ kept = 0
    /\ BlockIdle
    /\ ParseIdle

\* a run of main starts; lines 371-386 either build the text or raise
StartRun ==
    /\ mpc = "idle"
    /\ runs < MaxRuns
    /\ runs' = runs + 1
    /\ mpc' \in {"getMe", "idle"}
    /\ bot_id' = 0 /\ pinned_id' = 0 /\ new_id' = 0
    /\ calls' = <<>>
    /\ obs' = NoObs
    /\ UNCHANGED <<author, pinned, kept, bvars, pvars>>

\* line 389: getMe answers, or tg_api raises and the run ends
GetMe ==
    /\ mpc = "getMe"
    /\ \/ bot_id' = BotId /\ mpc' = "getChat"
       \/ bot_id' = bot_id /\ mpc' = "idle"
    /\ UNCHANGED <<author, pinned, runs, pinned_id, new_id, calls, obs, kept,
                   bvars, pvars>>

\* line 390: getChat answers, or tg_api raises and the run ends
GetChat ==
    /\ mpc = "getChat"
    /\ \/ /\ pinned_id' = get_pinned_message_id_if_ours(PinnedMessage, bot_id)
          /\ obs' = [seen |-> TRUE, mid |-> PinnedMessage.mid,
                     from |-> PinnedMessage.from, kept |-> kept]
          /\ mpc' = "branch"
       \/ /\ UNCHANGED <<pinned_id, obs>>
          /\ mpc' = "idle"
    /\ UNCHANGED <<author, pinned, runs, bot_id, new_id, calls, kept,
                   bvars, pvars>>

\* lines 392-405: editMessageText is issued; the run ends whether it
\* answers or raises
EditPinned ==
    /\ mpc = "branch"
    /\ pinned_id # 0
    /\ calls' = Append(calls, <<"editMessageText", pinned_id>>)
    /\ mpc' = "idle"
    /\ UNCHANGED <<author, pinned, runs, bot_id, pinned_id, new_id, obs, kept,
                   bvars, pvars>>

\* lines 408-418: sendMessage is issued; it answers with the new message,
\* or raises and the run ends
SendNew ==
    /\ mpc = "branch"
    /\ pinned_id = 0
    /\ calls' = Append(calls, <<"sendMessage", 0>>)
    /\ \/ /\ Len(author) < MaxMsgs
          /\ author' = Append(author, bot_id)
          /\ new_id' = Len(author) + 1
          /\ mpc' = "pin"
       \/ /\ UNCHANGED <<author, new_id>>
          /\ mpc' = "idle"
    /\ UNCHANGED <<pinned, runs, bot_id, pinned_id, obs, kept, bvars, pvars>>

\* lines 421-432: pinChatMessage is issued; it pins the message, or raises
\* and the exception is passed over
PinNew ==
    /\ mpc = "pin"
    /\ calls' = Append(calls, <<"pinChatMessage", new_id>>)
    /\ \/ pinned' = new_id /\ kept' = new_id
       \/ UNCHANGED <<pinned, kept>>
    /\ mpc' = "idle"
    /\ UNCHANGED <<author, runs, bot_id, pinned_id, new_id, obs, bvars, pvars>>

\* somebody else posts a message
OtherPosts ==
    /\ mpc # "off"
    /\ Len(author) < MaxMsgs
    /\ \E a \in OtherAuthors : author' = Append(author, a)
    /\ UNCHANGED <<pinned, mpc, runs, bot_id, pinned_id, new_id, calls, obs,
                   kept, bvars, pvars>>

\* an administrator pins a message of the chat
OtherPins ==
    /\ mpc # "off"
    /\ \E m \in 1..Len(author) :
           /\ m # pinned
           /\ pinned' = m
    /\ kept' = 0
    /\ UNCHANGED <<author, mpc, runs, bot_id, pinned_id, new_id, calls, obs,
                   bvars, pvars>>

\* an administrator unpins the pinned message
OtherUnpins ==
    /\ mpc # "off"
    /\ pinned # 0
    /\ pinned' = 0
    /\ kept' = 0
    /\ UNCHANGED <<author, mpc, runs, bot_id, pinned_id, new_id, calls, obs,
                   bvars, pvars>>

DeliverNext ==
    \/ StartRun \/ GetMe \/ GetChat \/ EditPinned \/ SendNew \/ PinNew
    \/ OtherPosts \/ OtherPins \/ OtherUnpins

SpecDeliver == DeliverInit /\ [][DeliverNext]_vars

-----------------------------------------------------------------------------
(* Properties of the delivery *)

\* getChat showed this run a pinned message whose author is the bot
SawOurs == obs.seen /\ obs.mid # 0 /\ obs.from = BotId

EditCall(m) == <<"editMessageText", m>>
SendCall == <<"sendMessage", 0>>
PinCall(m) == <<"pinChatMessage", m>>

\* C6: a run that finds a pinned message of the bot's own id issues one
\* editMessageText on it and neither sendMessage nor pinChatMessage; a run
\* issues sendMessage, and then pinChatMessage of the message just sent,
\* only when nothing is pinned or the pinned message has another author;
\* so while the message a run sent and pinned stays pinned, every later run
\* edits that message and sends no other.
C6_SinglePinnedMessage ==
    /\ ~obs.seen => calls = <<>>
    /\ SawOurs =>
           /\ pinned_id = obs.mid
           /\ \/ mpc = "branch" /\ calls = <<>>
              \/ mpc = "idle" /\ calls = <<EditCall(obs.mid)>>
    /\ obs.seen /\ ~SawOurs =>
           /\ pinned_id = 0
           /\ \/ mpc = "branch" /\ calls = <<>>
              \/ mpc = "pin" /\ calls = <<SendCall>>
                 /\ new_id \in 1..Len(author) /\ author[new_id] = BotId
              \/ mpc = "idle" /\ calls = <<SendCall>> /\ new_id = 0
              \/ mpc = "idle" /\ calls = <<SendCall, PinCall(new_id)>>
                 /\ new_id \in 1..Len(author) /\ author[new_id] = BotId
    /\ kept # 0 => pinned = kept /\ author[kept] = BotId
    /\ obs.seen /\ obs.kept # 0 => SawOurs /\ obs.mid = obs.kept

\* a later run has found the message an earlier run sent and pinned still
\* pinned, and has edited it
C6_Witness ==
    /\ mpc = "idle"
    /\ runs >= 2
    /\ obs.seen
    /\ obs.kept # 0
    /\ calls = <<EditCall(obs.kept)>>
    /\ Cardinality({m \in 1..Len(author) : author[m] = BotId}) = 1

====
